---- MODULE Spec2Model ----
(***************************************************************************)
(* Model of the generated Modbus "ModbusConstants" message codec of plc4c   *)
(* (sandbox/plc4c/generated-sources/modbus/src/modbus_constants.c).         *)
(*                                                                          *)
(* The message has one const field, modbusTcpDefaultPort, 16 bits wide.     *)
(* parse / serialize / length_in_bits / length_in_bytes are translated      *)
(* from the C source.  The cursor buffers (plc4c/spi/read_buffer.h,         *)
(* write_buffer.h), the return codes and the value of the constant live in  *)
(* headers that are not part of the translated file; they are modelled from *)
(* sections 3, 4.1, 4.2 and 8 of the specification.                         *)
(***************************************************************************)
EXTENDS Integers, Naturals, Sequences, FiniteSets, TLC

VARIABLES
  rbuf,     \* the read buffer: [data : Seq(0..255), curPosBits : Nat]
  wbuf,     \* the write buffer: [data : Seq(0..255), curPosBits : Nat]
  message,  \* the caller's output slot *_message of parse
  live,     \* allocations made by the last parse call and not freed by it
  call      \* the last call: its name, inputs, entry state and result

vars == <<rbuf, wbuf, message, live, call>>

----------------------------------------------------------------------------
(* Bounds of the model *)

\* largest buffer, in bytes, that the caller hands to the codec
MaxBytes == 3

\* byte values the caller's read buffer is filled with: the bytes of the two
\* wire values of the specification's scenario, 0x017F (383) and 0x01F6 (502)
ByteVals == {1, 127, 246}

\* bytes the caller's write buffer is pre-filled with (all bits set, so that
\* a write has to clear bits as well as set them)
FillBytes == {255}

\* values a read that failed may hand back in place of a value.  The call
\* site takes the return of the read as the field's value and nothing says
\* what a failed read returns, so it is any 16-bit number: one that differs
\* from the constant and the constant itself stand for the two outcomes.
GarbageVals == {0, 502}

----------------------------------------------------------------------------
(* Return codes, constant, messages *)

OK == "OK"
NO_MEMORY == "NO_MEMORY"
PARSE_ERROR == "PARSE_ERROR"
NONE == "NONE"

MODBUS_TCP_DEFAULT_PORT == 502

NULL == "NULL"
\* a freshly malloc'ed, uninitialised message
Allocated == "uninitialised"
\* the _message arguments a caller may pass to serialize and to the length
\* functions: no message, an uninitialised one, and one with content
MessageArgs == {NULL, Allocated, "m383"}

\* what a message with this content would carry as its port, if serialize
\* were (wrongly) to look at it
ContentOf(m) == IF m = "m383" THEN 383 ELSE 0

----------------------------------------------------------------------------
(* Cursor buffers *)

Pow2(n) == 2 ^ n

Capacity(buf) == 8 * Len(buf.data)

\* bit i (0 = most significant bit of the first byte) of a byte sequence
BitAt(data, i) == (data[(i \div 8) + 1] \div Pow2(7 - (i % 8))) % 2

\* the n bits starting at bit p, as a big-endian unsigned number
RECURSIVE BitsValue(_, _, _)
BitsValue(data, p, n) ==
  IF n = 0 THEN 0
  ELSE 2 * BitsValue(data, p, n - 1) + BitAt(data, p + n - 1)

\* data with the n bits starting at bit p replaced by the low n bits of v
PutBits(data, p, n, v) ==
  LET NewBit(i) == IF i >= p /\ i < p + n
                   THEN (v \div Pow2(p + n - 1 - i)) % 2
                   ELSE BitAt(data, i)
      RECURSIVE ByteFrom(_, _)
      ByteFrom(first, k) ==
        IF k = 0 THEN 0
        ELSE 2 * ByteFrom(first, k - 1) + NewBit(first + k - 1)
  IN [j \in 1..Len(data) |-> ByteFrom(8 * (j - 1), 8)]

plc4c_spi_read_get_pos(buf) == buf.curPosBits

\* 4.1: reads num_bits at the cursor and advances by num_bits; with fewer
\* than num_bits left it fails, reads nothing and does not move.  The C
\* call site receives only a value, so a failed read hands back `garbage`.
plc4c_spi_read_unsigned_int(buf, num_bits, garbage) ==
  IF buf.curPosBits + num_bits > Capacity(buf)
  THEN [buf |-> buf, value |-> garbage, err |-> "OutOfBounds"]
  ELSE [buf   |-> [buf EXCEPT !.curPosBits = @ + num_bits],
        value |-> BitsValue(buf.data, buf.curPosBits, num_bits),
        err   |-> OK]

\* 4.2: writes value in num_bits at the cursor and advances by num_bits;
\* fails without touching the buffer when the value does not fit or the
\* buffer has fewer than num_bits left.
plc4c_spi_write_unsigned_int(buf, num_bits, value) ==
  IF value >= Pow2(num_bits)
  THEN [buf |-> buf, err |-> "ValueTooLarge"]
  ELSE IF buf.curPosBits + num_bits > Capacity(buf)
  THEN [buf |-> buf, err |-> "OutOfBounds"]
  ELSE [buf |-> [data       |-> PutBits(buf.data, buf.curPosBits, num_bits, value),
                 curPosBits |-> buf.curPosBits + num_bits],
        err |-> OK]

----------------------------------------------------------------------------
(* The codec functions of modbus_constants.c *)

\* parse with the port kept in a uint8_t: only the low byte is compared
parse_low_byte_only(buf, mallocOk, garbage) ==
  LET start == plc4c_spi_read_get_pos(buf) % Pow2(16)
      msg   == IF mallocOk THEN Allocated ELSE NULL
  IN IF msg = NULL
     THEN [rc |-> NO_MEMORY, buf |-> buf, message |-> msg, live |-> 0,
           startPos |-> start, actual |-> -1]
     ELSE LET r    == plc4c_spi_read_unsigned_int(buf, 16, garbage)
              port == r.value % Pow2(16)
          IN IF port % Pow2(8) # MODBUS_TCP_DEFAULT_PORT % Pow2(8)
             THEN [rc |-> PARSE_ERROR, buf |-> r.buf, message |-> msg,
                   live |-> 1, startPos |-> start, actual |-> port]
             ELSE [rc |-> OK, buf |-> r.buf, message |-> msg,
                   live |-> 1, startPos |-> start, actual |-> port]

\* parse that reads the const field as 8 bits instead of 16
parse_reads_8_bits(buf, mallocOk, garbage) ==
  LET start == plc4c_spi_read_get_pos(buf) % Pow2(16)
      msg   == IF mallocOk THEN Allocated ELSE NULL
  IN IF msg = NULL
     THEN [rc |-> NO_MEMORY, buf |-> buf, message |-> msg, live |-> 0,
           startPos |-> start, actual |-> -1]
     ELSE LET r    == plc4c_spi_read_unsigned_int(buf, 8, garbage)
              port == r.value % Pow2(16)
          IN IF port # MODBUS_TCP_DEFAULT_PORT
             THEN [rc |-> PARSE_ERROR, buf |-> r.buf, message |-> msg,
                   live |-> 1, startPos |-> start, actual |-> port]
             ELSE [rc |-> OK, buf |-> r.buf, message |-> msg,
                   live |-> 1, startPos |-> start, actual |-> port]

\* parse without the check of malloc's result: the field is read and
\* compared although no message could be allocated
parse_without_null_check(buf, mallocOk, garbage) ==
  LET start == plc4c_spi_read_get_pos(buf) % Pow2(16)
      msg   == IF mallocOk THEN Allocated ELSE NULL
      r     == plc4c_spi_read_unsigned_int(buf, 16, garbage)
      port  == r.value % Pow2(16)
  IN IF port # MODBUS_TCP_DEFAULT_PORT
     THEN [rc |-> PARSE_ERROR, buf |-> r.buf, message |-> msg,
           live |-> IF mallocOk THEN 1 ELSE 0, startPos |-> start,
           actual |-> port]
     ELSE [rc |-> OK, buf |-> r.buf, message |-> msg,
           live |-> IF mallocOk THEN 1 ELSE 0, startPos |-> start,
           actual |-> port]

\* parse: result of one call on buf; allocOk says whether malloc succeeds,
\* garbage is what a failed read hands back.
plc4c_modbus_read_write_modbus_constants_parse(buf, mallocOk, garbage) ==
  LET start == plc4c_spi_read_get_pos(buf) % Pow2(16)
      msg   == IF mallocOk THEN Allocated ELSE NULL
  IN IF msg = NULL
     THEN [rc |-> NO_MEMORY, buf |-> buf, message |-> msg, live |-> 0,
           startPos |-> start, actual |-> -1]
     ELSE LET r    == plc4c_spi_read_unsigned_int(buf, 16, garbage)
              port == r.value % Pow2(16)
          IN IF port # MODBUS_TCP_DEFAULT_PORT
             THEN [rc |-> PARSE_ERROR, buf |-> r.buf, message |-> msg,
                   live |-> 1, startPos |-> start, actual |-> port]
             ELSE [rc |-> OK, buf |-> r.buf, message |-> msg,
                   live |-> 1, startPos |-> start, actual |-> port]

\* serialize that writes the field one byte wide (the low byte of the port)
serialize_one_byte(buf, m) ==
  LET w == plc4c_spi_write_unsigned_int(buf, 8, MODBUS_TCP_DEFAULT_PORT % Pow2(8))
  IN [rc |-> OK, buf |-> w.buf]

\* serialize that takes the port from the message it is given
serialize_from_message(buf, m) ==
  LET v == IF m \in {NULL, Allocated} THEN MODBUS_TCP_DEFAULT_PORT ELSE ContentOf(m)
      w == plc4c_spi_write_unsigned_int(buf, 16, v)
  IN [rc |-> OK, buf |-> w.buf]

\* serialize: the result of the write is dropped and OK returned.
plc4c_modbus_read_write_modbus_constants_serialize(buf, m) ==
  LET w == plc4c_spi_write_unsigned_int(buf, 16, MODBUS_TCP_DEFAULT_PORT)
  IN [rc |-> OK, buf |-> w.buf]

\* length_in_bits that counts the const field as one byte
length_in_bits_one_byte(m) ==
  (0 + 8) % Pow2(8)

\* length_in_bits: uint8_t lengthInBits = 0; lengthInBits += 16
plc4c_modbus_read_write_modbus_constants_length_in_bits(m) ==
  (0 + 16) % Pow2(8)

\* length_in_bytes: length_in_bits / 8, as uint8_t
plc4c_modbus_read_write_modbus_constants_length_in_bytes(m) ==
  (plc4c_modbus_read_write_modbus_constants_length_in_bits(m) \div 8) % Pow2(8)

----------------------------------------------------------------------------
(* State machine *)

Buffers(bytes) ==
  { [data |-> d, curPosBits |-> p] :
      <<d, p>> \in UNION { UNION { { <<dd, pp>> : pp \in 0..(8 * n) }
                                   : dd \in [1..n -> bytes] }
                           : n \in 0..MaxBytes } }

EmptyBuffer == [data |-> <<>>, curPosBits |-> 0]

\* The record of a call.  op: the function called; rc: its return code;
\* arg: its _message argument; allocOk: whether malloc succeeded in it;
\* rstart, wstart: the read and write cursors when it was entered;
\* slot: *_message when it was entered; actual: parse's local
\* modbusTcpDefaultPort; result: the value a length function returned.
NoCall ==
  [op |-> "none", rc |-> NONE, arg |-> NULL, allocOk |-> TRUE, rstart |-> 0,
   wstart |-> 0, slot |-> NULL, actual |-> -1, result |-> 0]

\* The caller hands over either a read buffer to decode from or a
\* pre-filled write buffer to encode into, positioned anywhere in it.
Init ==
  /\ \/ rbuf \in Buffers(ByteVals) /\ wbuf = EmptyBuffer
     \/ wbuf \in Buffers(FillBytes) /\ rbuf = EmptyBuffer
  /\ message = NULL
  /\ live = 0
  /\ call = NoCall

Entry(op) ==
  [NoCall EXCEPT !.op = op, !.rstart = rbuf.curPosBits,
                 !.wstart = wbuf.curPosBits, !.slot = message]

Parse ==
  \E ok \in BOOLEAN, g \in GarbageVals :
    LET r == plc4c_modbus_read_write_modbus_constants_parse(rbuf, ok, g)
    IN /\ rbuf' = r.buf
       /\ message' = r.message
       /\ live' = r.live
       /\ call' = [Entry("parse") EXCEPT !.rc = r.rc, !.allocOk = ok,
                                         !.rstart = r.startPos,
                                         !.actual = r.actual]
       /\ UNCHANGED wbuf

Serialize ==
  \E m \in MessageArgs :
    LET s == plc4c_modbus_read_write_modbus_constants_serialize(wbuf, m)
    IN /\ wbuf' = s.buf
       /\ call' = [Entry("serialize") EXCEPT !.rc = s.rc, !.arg = m]
       /\ UNCHANGED <<rbuf, message, live>>

\* serialize into the write buffer, then parse the bytes it holds from the
\* position at which serialize started
RoundTrip ==
  \E m \in MessageArgs, ok \in BOOLEAN, g \in GarbageVals :
    LET s  == plc4c_modbus_read_write_modbus_constants_serialize(wbuf, m)
        rb == [data |-> s.buf.data, curPosBits |-> wbuf.curPosBits]
        r  == plc4c_modbus_read_write_modbus_constants_parse(rb, ok, g)
    IN /\ wbuf' = s.buf
       /\ rbuf' = r.buf
       /\ message' = r.message
       /\ live' = r.live
       /\ call' = [Entry("roundtrip") EXCEPT !.rc = r.rc, !.arg = m,
                                             !.allocOk = ok,
                                             !.rstart = r.startPos,
                                             !.actual = r.actual]

LengthInBits ==
  \E m \in MessageArgs :
    /\ call' = [Entry("length_in_bits") EXCEPT !.arg = m, !.result =
                  plc4c_modbus_read_write_modbus_constants_length_in_bits(m)]
    /\ UNCHANGED <<rbuf, wbuf, message, live>>

LengthInBytes ==
  \E m \in MessageArgs :
    /\ call' = [Entry("length_in_bytes") EXCEPT !.arg = m, !.result =
                  plc4c_modbus_read_write_modbus_constants_length_in_bytes(m)]
    /\ UNCHANGED <<rbuf, wbuf, message, live>>

Next ==
  \/ Parse
  \/ Serialize
  \/ RoundTrip
  \/ LengthInBits
  \/ LengthInBytes

Spec == Init /\ [][Next]_vars

----------------------------------------------------------------------------
(* Properties *)

\* the last call ran parse (alone, or on the bytes serialize produced)
IsParse == call.op \in {"parse", "roundtrip"}

\* the last call ran serialize
IsSerialize == call.op \in {"serialize", "roundtrip"}

\* at least 16 bits lay between the read cursor and the capacity on entry
ReadRoom == call.rstart + 16 <= Capacity(rbuf)

\* at least 16 bits lay between the write cursor and the capacity on entry
WriteRoom == call.wstart + 16 <= Capacity(wbuf)

\* the 16-bit big-endian value at bit p of buf, -1 when it does not fit
FieldAt(buf, p) ==
  IF p + 16 <= Capacity(buf) THEN BitsValue(buf.data, p, 16) ELSE -1

\* C1 as stated: serialize into a buffer with 16 bits free, then parse of the
\* bytes it produced, always returns OK, and the read cursor advances by the
\* 16 bits the write cursor advanced.
C1_RoundTripAlwaysOk ==
  (call.op = "roundtrip" /\ WriteRoom) =>
     /\ call.rc = OK
     /\ rbuf.curPosBits - call.rstart = 16
     /\ wbuf.curPosBits - call.wstart = 16

\* C1 amended: serialize into a buffer with 16 bits free, then parse of the
\* bytes it produced, returns OK whenever the message allocation succeeds;
\* the value decoded is the constant, and the read cursor advances by the
\* same 16 bits the write cursor advanced.
C1_RoundTrip ==
  (call.op = "roundtrip" /\ WriteRoom /\ call.allocOk) =>
     /\ call.rc = OK
     /\ call.actual = MODBUS_TCP_DEFAULT_PORT
     /\ rbuf.curPosBits - call.rstart = 16
     /\ wbuf.curPosBits - call.wstart = 16
     /\ rbuf.curPosBits - call.rstart = wbuf.curPosBits - call.wstart

\* a round trip at a write cursor that is not byte-aligned
C1_Witness ==
  /\ call.op = "roundtrip"
  /\ WriteRoom
  /\ call.allocOk
  /\ call.wstart % 8 # 0
  /\ call.rc = OK
  /\ rbuf.curPosBits = call.rstart + 16

\* C2: with 16 bits available and the allocation succeeding, parse returns
\* PARSE_ERROR when the 16-bit value at the cursor differs from 502 and OK
\* exactly when it is 502; the bytes 0x01 0x7F (383) are rejected, the value
\* compared against 502 being 383.
C2_MismatchDetection ==
  (IsParse /\ call.allocOk /\ ReadRoom) =>
     LET v == FieldAt(rbuf, call.rstart)
     IN /\ call.actual = v
        /\ (v # 502) => call.rc = PARSE_ERROR
        /\ (call.rc = OK) <=> (v = 502)
        /\ (v = 383) => (call.rc = PARSE_ERROR /\ call.actual = 383)

\* parse of the bytes 0x01 0x7F from bit 0
C2_Witness ==
  /\ call.op = "parse"
  /\ call.allocOk
  /\ rbuf.data = <<1, 127>>
  /\ call.rstart = 0
  /\ call.actual = 383
  /\ call.rc = PARSE_ERROR

C4_OutOfBoundsReported ==
  /\ rbuf.curPosBits <= Capacity(rbuf)
  /\ (IsParse /\ call.allocOk /\ ~ReadRoom) =>
        /\ call.rc # OK
        /\ call.rc # PARSE_ERROR
        /\ rbuf.curPosBits = call.rstart

\* C5 as stated: for every _message argument serialize writes 502 as a
\* 16-bit field at the write cursor and advances the cursor by 16 bits.
C5_AlwaysWrites ==
  IsSerialize =>
     /\ wbuf.curPosBits = call.wstart + 16
     /\ FieldAt(wbuf, call.wstart) = MODBUS_TCP_DEFAULT_PORT

\* C5 amended: for every _message argument (NULL included), when the write
\* buffer has at least 16 bits free serialize writes 502 as a 16-bit field
\* (bytes 0x01, 0xF6 when byte-aligned) at the write cursor and advances the
\* cursor by 16 bits, whatever the message holds; the capacity is unchanged.
C5_ConstantFidelity ==
  (IsSerialize /\ WriteRoom) =>
     /\ wbuf.curPosBits = call.wstart + 16
     /\ FieldAt(wbuf, call.wstart) = 502
     /\ (call.wstart % 8 = 0) =>
           /\ wbuf.data[(call.wstart \div 8) + 1] = 1
           /\ wbuf.data[(call.wstart \div 8) + 2] = 246

\* serialize of a message with content into the last two bytes of a buffer
C5_Witness ==
  /\ call.op = "serialize"
  /\ call.arg = "m383"
  /\ WriteRoom
  /\ call.wstart = 8
  /\ wbuf.data = <<255, 1, 246>>
  /\ wbuf.curPosBits = 24

\* C6: when the write buffer has fewer than 16 bits of capacity left,
\* serialize returns a status other than OK.
C6_EncodeFailureSurfaced ==
  (call.op = "serialize" /\ ~WriteRoom) => call.rc # OK

\* C7: for every message argument length_in_bits is 16 and length_in_bytes
\* is 2, so length_in_bits = 8 * length_in_bytes; a call of either leaves
\* the output slot and both cursors as they were.
C7_LengthConsistency ==
  /\ (call.op = "length_in_bits") => call.result = 16
  /\ (call.op = "length_in_bytes") =>
        /\ call.result = 2
        /\ plc4c_modbus_read_write_modbus_constants_length_in_bits(call.arg)
             = 8 * call.result
  /\ (call.op \in {"length_in_bits", "length_in_bytes"}) =>
        /\ rbuf.curPosBits = call.rstart
        /\ wbuf.curPosBits = call.wstart
        /\ message = call.slot

\* length_in_bytes of no message, asked in the middle of a decode
C7_Witness ==
  /\ call.op = "length_in_bytes"
  /\ call.arg = NULL
  /\ call.result = 2
  /\ rbuf.curPosBits > 0

\* C8: whenever parse returns a status other than OK after a constant
\* mismatch, the output slot holds no message and no allocation of that call
\* is left outstanding; a message is in the slot only together with OK.
C8_NoMessageOnFailure ==
  /\ (IsParse /\ call.allocOk /\ ReadRoom /\ call.rc # OK) =>
        (message = NULL /\ live = 0)
  /\ (IsParse /\ message # NULL) => call.rc = OK

C10_AllocationFailure ==
  (IsParse /\ ~call.allocOk) =>
     /\ call.rc = NO_MEMORY
     /\ call.rc \notin {OK, PARSE_ERROR}
     /\ message = NULL
     /\ live = 0
     /\ rbuf.curPosBits = call.rstart

\* a failed allocation in front of a field that holds the constant
C10_Witness ==
  /\ call.op = "parse"
  /\ ~call.allocOk
  /\ call.rc = NO_MEMORY
  /\ FieldAt(rbuf, call.rstart) = 502
  /\ rbuf.curPosBits = call.rstart

====
